---- MODULE Spec2Model ----
(***************************************************************************)
(* Model of build-timing: the BuildTimingBuilder (build.rs), the          *)
(* BuildTimingConst identifiers and their ordering (env.rs), the rebuild   *)
(* trigger declarations of BuildPattern::rerun_if (build.rs) and the       *)
(* generation step BuildTiming::build_inner (build_timing.rs, which is     *)
(* declared in lib.rs but whose body is described by spec.md sections      *)
(* 4.1, 4.2, 4.4 and 7).                                                   *)
(*                                                                         *)
(* A string is a sequence of one-character strings.                        *)
(***************************************************************************)
EXTENDS Integers, Sequences, FiniteSets, TLC

\* ------------------------------------------------------------------ bounds
MaxHooks == 3
MaxList == 2
MaxKeys == 2

\* -------------------------------------------------------------- characters
\* Byte value of the characters that occur in identifiers (str::cmp compares
\* bytes).
Code(c) ==
  CASE c = "B" -> 66 [] c = "D" -> 68 [] c = "G" -> 71 [] c = "I" -> 73
    [] c = "K" -> 75 [] c = "L" -> 76 [] c = "M" -> 77 [] c = "N" -> 78
    [] c = "O" -> 79 [] c = "S" -> 83 [] c = "U" -> 85 [] c = "Z" -> 90
    [] c = "_" -> 95 [] c = "{" -> 123 [] c = "}" -> 125
    [] OTHER -> 0

\* ------------------------------------------------------------ env.rs
BUILD_OS == <<"B", "U", "I", "L", "D", "_", "O", "S">>

\* std::env::consts::OS and ARCH of the machine the build runs on.
OS == <<"o", "s">>
ARCH == <<"a", "r">>

\* impl ToString for BuildTimingConst: the wrapped name.
to_string(c) == c

\* impl Ord for BuildTimingConst: self.0.cmp(other.0), the bytewise
\* lexicographic order of the two names.
RECURSIVE cmp_rev(_, _)
cmp_rev(self, other) ==
  IF self = <<>> /\ other = <<>> THEN "Equal"
  ELSE IF self = <<>> THEN "Greater"
  ELSE IF other = <<>> THEN "Less"
  ELSE IF Code(Head(self)) < Code(Head(other)) THEN "Greater"
  ELSE IF Code(Head(self)) > Code(Head(other)) THEN "Less"
  ELSE cmp_rev(Tail(self), Tail(other))

RECURSIVE cmp(_, _)
cmp(self, other) ==
  IF self = <<>> /\ other = <<>> THEN "Equal"
  ELSE IF self = <<>> THEN "Less"
  ELSE IF other = <<>> THEN "Greater"
  ELSE IF Code(Head(self)) < Code(Head(other)) THEN "Less"
  ELSE IF Code(Head(self)) > Code(Head(other)) THEN "Greater"
  ELSE cmp(Tail(self), Tail(other))

\* Iteration order of a BTreeSet / BTreeMap keyed by names: ascending by cmp.
RECURSIVE Ascending(_)
Ascending(S) ==
  IF S = {} THEN <<>>
  ELSE LET m == CHOOSE x \in S : \A y \in S : cmp(x, y) # "Greater"
       IN  <<m>> \o Ascending(S \ {m})

\* impl BuildConstVal for BuildTimingConst: the value of a baseline constant.
\* Any name but BUILD_OS panics.
BuildTimingConst_build_val_panics(self) ==
  [id |-> to_string(self), t |-> "Str", v |-> <<>>, panic |-> TRUE]

BuildTimingConst_build_val_no_dash(self) ==
  IF self = BUILD_OS
  THEN [id |-> to_string(self), t |-> "Str", v |-> OS \o ARCH,
        panic |-> FALSE]
  ELSE [id |-> to_string(self), t |-> "Str", v |-> <<>>, panic |-> TRUE]

BuildTimingConst_build_val(self) ==
  IF self = BUILD_OS
  THEN [id |-> to_string(self), t |-> "Str", v |-> OS \o <<"-">> \o ARCH,
        panic |-> FALSE]
  ELSE [id |-> to_string(self), t |-> "Str", v |-> <<>>, panic |-> TRUE]

\* ------------------------------------------------------------ build.rs
default_allow == {BUILD_OS}

\* BuildPattern: Lazy (the default), RealTime, Custom { if_path_changed,
\* if_env_changed }.
Lazy == [tag |-> "Lazy", if_path_changed |-> <<>>, if_env_changed |-> <<>>]
RealTime ==
  [tag |-> "RealTime", if_path_changed |-> <<>>, if_env_changed |-> <<>>]
Custom(paths, envs) ==
  [tag |-> "Custom", if_path_changed |-> paths, if_env_changed |-> envs]

DEFINE_SOURCE_DATE_EPOCH ==
  <<"S", "O", "U", "R", "C", "E", "_", "D", "A", "T", "E", "_",
    "E", "P", "O", "C", "H">>
DEFINE_BUILD_TIMING_RS ==
  <<"b", "u", "i", "l", "d", "_", "t", "i", "m", "i", "n", "g", ".", "r", "s">>

\* println!("cargo:rerun-if-env-changed={key}") and
\* println!("cargo:rerun-if-changed={p}"): one line of standard output.
EnvLine(key) == [kind |-> "rerun-if-env-changed", arg |-> key]
PathLine(p) == [kind |-> "rerun-if-changed", arg |-> p]

EnvLines(keys) == [i \in 1..Len(keys) |-> EnvLine(keys[i])]
PathLines(ps) == [i \in 1..Len(ps) |-> PathLine(ps[i])]

\* BuildPattern::rerun_if: the lines printed, in order.
rerun_if_lazy_always(self, debug, other_keys, out_dir) ==
  IF self.tag = "Lazy" THEN <<>>
  ELSE (IF self.tag = "Custom"
        THEN EnvLines(self.if_env_changed) \o PathLines(self.if_path_changed)
        ELSE <<>>)
       \o EnvLines([i \in 1..Len(other_keys) |-> to_string(other_keys[i])])
       \o <<EnvLine(DEFINE_SOURCE_DATE_EPOCH)>>
       \o <<PathLine(out_dir \o <<"/">> \o DEFINE_BUILD_TIMING_RS)>>

rerun_if_ignores_debug(self, debug, other_keys, out_dir) ==
  (IF self.tag = "Custom"
   THEN EnvLines(self.if_env_changed) \o PathLines(self.if_path_changed)
   ELSE <<>>)
  \o EnvLines([i \in 1..Len(other_keys) |-> to_string(other_keys[i])])
  \o <<EnvLine(DEFINE_SOURCE_DATE_EPOCH)>>
  \o <<PathLine(out_dir \o <<"/">> \o DEFINE_BUILD_TIMING_RS)>>

rerun_if_no_paths(self, debug, other_keys, out_dir) ==
  IF self.tag = "Lazy" /\ debug THEN <<>>
  ELSE (IF self.tag = "Custom"
        THEN EnvLines(self.if_env_changed)
        ELSE <<>>)
       \o EnvLines([i \in 1..Len(other_keys) |-> to_string(other_keys[i])])
       \o <<EnvLine(DEFINE_SOURCE_DATE_EPOCH)>>
       \o <<PathLine(out_dir \o <<"/">> \o DEFINE_BUILD_TIMING_RS)>>

rerun_if(self, debug, other_keys, out_dir) ==
  IF self.tag = "Lazy" /\ debug THEN <<>>
  ELSE (IF self.tag = "Custom"
        THEN EnvLines(self.if_env_changed) \o PathLines(self.if_path_changed)
        ELSE <<>>)
       \o EnvLines([i \in 1..Len(other_keys) |-> to_string(other_keys[i])])
       \o <<EnvLine(DEFINE_SOURCE_DATE_EPOCH)>>
       \o <<PathLine(out_dir \o <<"/">> \o DEFINE_BUILD_TIMING_RS)>>

\* BuildTimingBuilder::get_out_path: the configured path, or the error
\* "missing out_path".
get_out_path_or_default(self) ==
  [ok |-> TRUE, val |-> self.out_path.val, err |-> ""]

get_out_path(self) ==
  IF self.out_path.some
  THEN [ok |-> TRUE, val |-> self.out_path.val, err |-> ""]
  ELSE [ok |-> FALSE, val |-> <<>>, err |-> "missing out_path"]

\* Option<String>
None == [some |-> FALSE, val |-> <<>>]
Some(x) == [some |-> TRUE, val |-> x]

\* ------------------------------------------------ hooks a caller registers
\* A Box<dyn BuildConstVal>: to_string() is id, build_val() is ConstVal
\* { v, t }. t = "Format" marks a template hook (example_hook_consts).
Hook(id, t, v) == [id |-> id, t |-> t, v |-> v]

G == <<"G">>
M == <<"M">>
N == <<"N">>
Z == <<"Z">>

G_hi == Hook(G, "Str", <<"h", "i">>)
G_brace == Hook(G, "Str", <<"{", "M", "}">>)
N_x == Hook(N, "Str", <<"x">>)
M_say == Hook(M, "Format", <<"s", "a", "y", " ", "{", "G", "}">>)
M_fwd ==
  Hook(M, "Format",
       <<"{", "B", "U", "I", "L", "D", "_", "O", "S", "}", "{", "N", "}">>)
M_unknown == Hook(M, "Format", <<"a", "{", "Z", "}">>)
N_two == Hook(N, "Format", <<"{", "G", "}", "+", "{", "M", "}">>)

\* example_hook_consts registers BUILD_OS itself as a hook too.
OS_hook == Hook(BUILD_OS, "Str", OS \o <<"-">> \o ARCH)

HookPool == {G_hi, G_brace, N_x, M_say, M_fwd, M_unknown, N_two, OS_hook}

\* The value of OUT_DIR when it is set.
OutDir == <<"o", "u", "t">>

\* ------------------------------------------------------------------ state
VARIABLES
  build_pattern,  \* BuildTimingBuilder.build_pattern
  allow_const,    \* BuildTimingBuilder.allow_const
  out_path,       \* BuildTimingBuilder.out_path
  hook_consts,    \* BuildTimingBuilder.hook_consts
  ret,            \* what the last call returned
  fragment,       \* the generated file as the writer last left it
  call,           \* the arguments of the last rerun_if call
  triggers,       \* the lines the last rerun_if call printed
  history,        \* history: the hooks passed to add_const_hook, in call order
  last_allow      \* history: the argument of the last allow_const call

vars ==
  <<build_pattern, allow_const, out_path, hook_consts, ret, fragment, call,
    triggers, history, last_allow>>

builder_vars == <<build_pattern, allow_const, out_path, hook_consts>>
history_vars == <<history, last_allow>>
NotCalled == [called |-> FALSE, arg |-> {}]

self_builder ==
  [build_pattern |-> build_pattern, allow_const |-> allow_const,
   out_path |-> out_path, hook_consts |-> hook_consts]

RetBuilder == [status |-> "builder", kind |-> "", hook |-> <<>>, name |-> <<>>]
NoCall == [made |-> FALSE, pattern |-> Lazy, debug |-> FALSE,
           other_keys |-> <<>>, out_dir |-> <<>>]

\* --------------------------------------------------- registration (build.rs)
\* BuildTimingBuilder::allow_const: the set is replaced by the argument.
allow_const_extend(self, set) == self.allow_const \cup set

allow_const_op(self, set) == set

\* BuildTimingBuilder::add_const_hook: self.hook_consts.push(hook).
add_const_hook_front(self, hook) == <<hook>> \o self.hook_consts

add_const_hook(self, hook) == Append(self.hook_consts, hook)

\* ------------------------------------- generation step (build_timing.rs)
\* ConstantSet.register: add the hook, or replace the one of the same
\* identifier.
register(cs, hook) ==
  [i \in DOMAIN cs \cup {hook.id} |-> IF i = hook.id THEN hook ELSE cs[i]]

RECURSIVE register_all(_, _)
register_all(cs, hooks) ==
  IF hooks = <<>> THEN cs
  ELSE register_all(register(cs, Head(hooks)), Tail(hooks))

\* Step 1 of the engine: the ConstantSet is the baseline hooks of allow_const
\* followed by the caller's hooks in registration order.
ConstantSet(self) ==
  LET base == [c \in self.allow_const |->
                 LET b == BuildTimingConst_build_val(c)
                 IN  Hook(b.id, b.t, b.v)]
  IN  register_all(base, self.hook_consts)

IsTemplate(hook) == hook.t = "Format"

\* Position of the first ch in text at or after i, 0 when there is none.
IndexFrom(text, ch, i) ==
  IF \E j \in i..Len(text) : text[j] = ch
  THEN CHOOSE j \in i..Len(text) :
         text[j] = ch /\ \A k \in i..(j - 1) : text[k] # ch
  ELSE 0

SubOk(text) == [ok |-> TRUE, text |-> text, kind |-> "", name |-> <<>>]
SubErr(kind, name) == [ok |-> FALSE, text |-> <<>>, kind |-> kind, name |-> name]

\* TemplateResolver lookup of one placeholder name: the resolved value, or
\* UnresolvedForwardReference for a registered hook that is not resolved yet,
\* or UnknownConstant for a name nobody registered.
lookup(name, resolved, registered) ==
  IF name \in DOMAIN resolved THEN SubOk(resolved[name])
  ELSE IF name \in registered THEN SubErr("UnresolvedForwardReference", name)
  ELSE SubErr("UnknownConstant", name)

\* TemplateResolver: one left-to-right scan from position i; every {name}
\* span is replaced by the looked-up value, which is not scanned again.
RECURSIVE substitute(_, _, _, _)
substitute(text, i, resolved, registered) ==
  IF i > Len(text) THEN SubOk(<<>>)
  ELSE IF text[i] = "{" /\ IndexFrom(text, "}", i + 1) # 0
  THEN LET j == IndexFrom(text, "}", i + 1)
           val == lookup(SubSeq(text, i + 1, j - 1), resolved, registered)
       IN  IF ~val.ok THEN val
           ELSE LET rest == substitute(text, j + 1, resolved, registered)
                IN  IF rest.ok THEN SubOk(val.text \o rest.text) ELSE rest
  ELSE LET rest == substitute(text, i + 1, resolved, registered)
       IN  IF rest.ok THEN SubOk(<<text[i]>> \o rest.text) ELSE rest

ResOk(values) ==
  [ok |-> TRUE, values |-> values, kind |-> "", hook |-> <<>>, name |-> <<>>]
ResErr(kind, hook, name) ==
  [ok |-> FALSE, values |-> <<>>, kind |-> kind, hook |-> hook, name |-> name]

\* The template hooks, in identifier order; the first failure ends resolution.
RECURSIVE resolve_templates(_, _, _, _)
resolve_templates(cs, ids, resolved, acc) ==
  IF ids = <<>> THEN ResOk(acc)
  ELSE LET id == Head(ids)
           r == substitute(cs[id].v, 1, resolved, DOMAIN cs)
       IN  IF ~r.ok THEN ResErr(r.kind, id, r.name)
           ELSE resolve_templates(
                  cs, Tail(ids),
                  [k \in DOMAIN resolved \cup {id} |->
                     IF k = id THEN r.text ELSE resolved[k]],
                  Append(acc, Hook(id, cs[id].t, r.text)))

\* ConstantSet.resolve_all: every non-template hook in identifier order, then
\* every template hook in identifier order.
resolve_all(cs) ==
  LET plain == Ascending({i \in DOMAIN cs : ~IsTemplate(cs[i])})
      templ == Ascending({i \in DOMAIN cs : IsTemplate(cs[i])})
      first == [k \in 1..Len(plain) |-> cs[plain[k]]]
      resolved == [i \in {i \in DOMAIN cs : ~IsTemplate(cs[i])} |-> cs[i].v]
  IN  resolve_templates(cs, templ, resolved, first)

Ret(status, kind, hook, name) ==
  [status |-> status, kind |-> kind, hook |-> hook, name |-> name]

\* BuildTiming::build_inner: the output path is required; every hook is
\* resolved in memory; only then are the triggers declared and the fragment
\* handed to the writer.
build_inner(self, debug, old) ==
  LET out == get_out_path(self)
      res == resolve_all(ConstantSet(self))
  IN  IF ~out.ok
      THEN [ret |-> Ret("err", "MissingConfiguration", <<>>, <<>>),
            fragment |-> old.fragment, call |-> old.call,
            triggers |-> old.triggers]
      ELSE IF \E c \in self.allow_const : BuildTimingConst_build_val(c).panic
      THEN [ret |-> Ret("panic", "", <<>>, <<>>),
            fragment |-> old.fragment, call |-> old.call,
            triggers |-> old.triggers]
      ELSE IF ~res.ok
      THEN [ret |-> Ret("err", res.kind, res.hook, res.name),
            fragment |-> old.fragment, call |-> old.call,
            triggers |-> old.triggers]
      ELSE [ret |-> Ret("ok", "", <<>>, <<>>),
            fragment |-> res.values,
            call |-> [made |-> TRUE, pattern |-> self.build_pattern,
                      debug |-> debug,
                      other_keys |-> Ascending(self.allow_const),
                      out_dir |-> out.val],
            triggers |-> rerun_if(self.build_pattern, debug,
                                  Ascending(self.allow_const), out.val)]

\* ---------------------------------------------------------------- inputs
SeqsUpTo(S, n) == UNION {[1..k -> S] : k \in 0..n}

AllowSets == SUBSET {BUILD_OS}

PathPool == {<<"a", ".", "r", "s">>, <<"b">>}
VarPool == {<<"M", "Y">>, <<"V">>}
KeyPool == {BUILD_OS, <<"K">>}
OutDirs == {OutDir, <<"t">>}

Patterns ==
  {Lazy, RealTime}
    \cup {Custom(p, e) : p \in SeqsUpTo(PathPool, MaxList),
                         e \in SeqsUpTo(VarPool, MaxList)}

\* The fragment a run of the default builder leaves behind.
PreviousFragment == <<Hook(BUILD_OS, "Str", OS \o <<"-">> \o ARCH)>>

\* ---------------------------------------------------------------- actions
\* BuildTimingBuilder::builder(), in a build directory where an earlier run
\* of the default builder has left its fragment.
Init ==
  /\ build_pattern = Lazy
  /\ allow_const = default_allow
  /\ out_path \in {None, Some(OutDir)}
  /\ hook_consts = <<>>
  /\ ret = RetBuilder
  /\ fragment = PreviousFragment
  /\ call = NoCall
  /\ triggers = <<>>
  /\ history = <<>>
  /\ last_allow = NotCalled

AllowConst ==
  \E set \in AllowSets :
    /\ allow_const' = allow_const_op(self_builder, set)
    /\ ret' = RetBuilder
    /\ last_allow' = [called |-> TRUE, arg |-> set]
    /\ UNCHANGED <<build_pattern, out_path, hook_consts, fragment, call,
                   triggers, history>>

AddConstHook ==
  \E hook \in HookPool :
    /\ Len(hook_consts) < MaxHooks
    /\ hook_consts' = add_const_hook(self_builder, hook)
    /\ ret' = RetBuilder
    /\ history' = Append(history, hook)
    /\ UNCHANGED <<build_pattern, allow_const, out_path, fragment, call,
                   triggers, last_allow>>

Build ==
  \E debug \in BOOLEAN :
    LET r == build_inner(self_builder, debug,
                         [fragment |-> fragment, call |-> call,
                          triggers |-> triggers])
    IN  /\ ret' = r.ret
        /\ fragment' = r.fragment
        /\ call' = r.call
        /\ triggers' = r.triggers
        /\ UNCHANGED <<builder_vars, history_vars>>

Next == AllowConst \/ AddConstHook \/ Build

Spec == Init /\ [][Next]_vars

\* rerun_if called on a pattern of its own: the pattern, the debug signal,
\* the keys and the directory are the arguments of the call to come.
InitRerun ==
  /\ build_pattern = Lazy
  /\ allow_const = default_allow
  /\ out_path = Some(OutDir)
  /\ hook_consts = <<>>
  /\ ret = RetBuilder
  /\ fragment = <<>>
  /\ call \in [made : {FALSE}, pattern : Patterns, debug : BOOLEAN,
               other_keys : SeqsUpTo(KeyPool, MaxKeys), out_dir : OutDirs]
  /\ triggers = <<>>
  /\ history = <<>>
  /\ last_allow = NotCalled

RerunIf ==
  /\ ~call.made
  /\ call' = [call EXCEPT !.made = TRUE]
  /\ triggers' = rerun_if(call.pattern, call.debug, call.other_keys,
                          call.out_dir)
  /\ UNCHANGED <<builder_vars, history_vars, ret, fragment>>

NextRerun == RerunIf

SpecRerun == InitRerun /\ [][NextRerun]_vars

\* ============================================================ properties
\* What the properties read off the state, without the engine's operators.
Built == ret.status # "builder"

HookIds == {hook_consts[i].id : i \in 1..Len(hook_consts)}
RegisteredIds == allow_const \cup HookIds

\* The hook an identifier stands for: the last one in hook_consts, else the
\* baseline platform hook.
Held(id) ==
  IF id \in HookIds
  THEN LET last == CHOOSE i \in 1..Len(hook_consts) :
                     /\ hook_consts[i].id = id
                     /\ \A j \in (i + 1)..Len(hook_consts) :
                          hook_consts[j].id # id
       IN  hook_consts[last]
  ELSE [id |-> id, t |-> "Str", v |-> <<"o", "s", "-", "a", "r">>]

TemplateIds == {id \in RegisteredIds : Held(id).t = "Format"}
PlainIds == RegisteredIds \ TemplateIds

\* a sorts strictly before b, byte by byte.
Before(a, b) ==
  \E k \in 1..(Len(b)) :
    /\ k <= Len(a) + 1
    /\ \A j \in 1..(k - 1) : a[j] = b[j]
    /\ (k = Len(a) + 1 \/ Code(a[k]) < Code(b[k]))

ClosingAfter(text, i) == {j \in (i + 1)..Len(text) : text[j] = "}"}
Least(S) == CHOOSE j \in S : \A k \in S : j <= k

\* The placeholder names of a template, left to right.
RECURSIVE NamesFrom(_, _)
NamesFrom(text, i) ==
  IF i > Len(text) THEN <<>>
  ELSE IF text[i] = "{" /\ ClosingAfter(text, i) # {}
  THEN LET j == Least(ClosingAfter(text, i))
       IN  <<SubSeq(text, i + 1, j - 1)>> \o NamesFrom(text, j + 1)
  ELSE NamesFrom(text, i + 1)

Names(id) == NamesFrom(Held(id).v, 1)
NameSet(id) == {Names(id)[k] : k \in 1..Len(Names(id))}

\* The template text with every span replaced by the held value of its name.
RECURSIVE ExpectedFrom(_, _)
ExpectedFrom(text, i) ==
  IF i > Len(text) THEN <<>>
  ELSE IF text[i] = "{" /\ ClosingAfter(text, i) # {}
  THEN LET j == Least(ClosingAfter(text, i))
       IN  Held(SubSeq(text, i + 1, j - 1)).v \o ExpectedFrom(text, j + 1)
  ELSE <<text[i]>> \o ExpectedFrom(text, i + 1)

Emitted(id) == {i \in 1..Len(fragment) : fragment[i].id = id}

\* A placeholder of template id can be looked up when it names a
\* non-template hook or a template hook that sorts before id.
Resolvable(id, name) ==
  name \in PlainIds \/ (name \in TemplateIds /\ Before(name, id))
BadTemplates ==
  {id \in TemplateIds : \E name \in NameSet(id) : ~Resolvable(id, name)}
FirstBad == CHOOSE id \in BadTemplates : \A o \in BadTemplates \ {id} : Before(id, o)
FirstBadName ==
  LET ns == Names(FirstBad)
      k == Least({k \in 1..Len(ns) : ~Resolvable(FirstBad, ns[k])})
  IN  ns[k]

\* C1: a template hook whose placeholders all name registered non-template
\* hooks resolves: the generation does not fail at it, it succeeds when every
\* template is of that kind, and the value emitted is the template text with
\* each {name} span replaced by the value of name, inserted as it is and not
\* scanned again. GREETING = "hi", MSG = "say {GREETING}" yields MSG = "say hi".
C1_TemplateSubstitution ==
  (Built /\ out_path.some) =>
    /\ \A id \in TemplateIds :
         NameSet(id) \subseteq PlainIds =>
           /\ ret.status \in {"ok", "err"}
           /\ ret.status = "err" => ret.hook # id
           /\ ret.status = "ok" =>
                \E i \in Emitted(id) :
                  fragment[i].v = ExpectedFrom(Held(id).v, 1)
    /\ (\A id \in TemplateIds : NameSet(id) \subseteq PlainIds) =>
         ret.status = "ok"
    /\ hook_consts = <<G_hi, M_say>> =>
         \E i \in 1..Len(fragment) :
           fragment[i] = [id |-> M, t |-> "Format",
                          v |-> <<"s", "a", "y", " ", "h", "i">>]

\* A value that looks like a placeholder was substituted and stayed as it is,
\* next to a template that takes the platform value.
C1_Witness ==
  /\ ret.status = "ok"
  /\ \E i \in 1..Len(fragment) :
       fragment[i] = [id |-> M, t |-> "Format",
                      v |-> <<"s", "a", "y", " ", "{", "M", "}">>]

\* One entry per registered identifier, the non-template hooks first and
\* each class in ascending identifier order.
OnePerIdentifier ==
  /\ {fragment[i].id : i \in 1..Len(fragment)} = RegisteredIds
  /\ \A i, j \in 1..Len(fragment) : fragment[i].id = fragment[j].id => i = j
ClassesInOrder ==
  \A i, j \in 1..Len(fragment) :
    i < j =>
      /\ ~(fragment[i].t = "Format" /\ fragment[j].t # "Format")
      /\ (fragment[i].t = "Format") = (fragment[j].t = "Format") =>
           Before(fragment[i].id, fragment[j].id)

\* name is reached from id by following placeholders through template hooks.
RefersTo(id) == NameSet(id) \cap TemplateIds
RECURSIVE ReachedIn(_, _)
ReachedIn(S, n) ==
  IF n = 0 THEN S
  ELSE ReachedIn(S \cup UNION {RefersTo(x) : x \in S}, n - 1)
NoTemplateCycle ==
  \A id \in TemplateIds :
    id \notin ReachedIn(RefersTo(id), Cardinality(TemplateIds))

\* C2 as stated: for every ConstantSet with no template cycles resolve_all
\* yields exactly one value per registered identifier, non-template hooks
\* first, each class in ascending identifier order.
C2_AsStated ==
  (Built /\ out_path.some /\ NoTemplateCycle) =>
    (ret.status = "ok" /\ OnePerIdentifier /\ ClassesInOrder)

\* C2 amended: for every ConstantSet whose placeholders all name a registered
\* non-template hook or a registered template hook that sorts earlier,
\* resolve_all yields exactly one value per registered identifier, all
\* non-template hooks before any template hook and each class in ascending
\* identifier order; and whenever it yields at all, the result has that shape.
C2_ResolveAllOrdered ==
  (Built /\ out_path.some) =>
    /\ BadTemplates = {} => ret.status = "ok"
    /\ ret.status = "ok" => (OnePerIdentifier /\ ClassesInOrder)

\* Two non-template hooks and two template hooks were resolved, registered
\* against the identifier order.
C2_Witness ==
  /\ ret.status = "ok"
  /\ Cardinality(TemplateIds) = 2
  /\ Cardinality(PlainIds) >= 2
  /\ Len(hook_consts) >= 2
  /\ Before(hook_consts[2].id, hook_consts[1].id)

LastRegistered(id) ==
  LET last == CHOOSE i \in 1..Len(history) :
                /\ history[i].id = id
                /\ \A j \in (i + 1)..Len(history) : history[j].id # id
  IN  history[last]

\* C5: after any sequence of registrations the ConstantSet holds one hook per
\* identifier, the one registered last, and a successful generation emits one
\* value per identifier, that of the last registration.
C5_LastRegistrationWins ==
  LET cs == ConstantSet(self_builder)
  IN  /\ \A i \in 1..Len(history) :
           /\ history[i].id \in DOMAIN cs
           /\ cs[history[i].id] = LastRegistered(history[i].id)
      /\ ret.status = "ok" =>
           \A i \in 1..Len(history) :
             /\ Cardinality(Emitted(history[i].id)) = 1
             /\ \A e \in Emitted(history[i].id) :
                  /\ fragment[e].t = LastRegistered(history[i].id).t
                  /\ fragment[e].t = "Str" =>
                       fragment[e].v = LastRegistered(history[i].id).v

\* G was registered twice with different values and then emitted.
C5_Witness ==
  /\ ret.status = "ok"
  /\ \E i, j \in 1..Len(history) :
       i < j /\ history[i].id = history[j].id /\ history[i] # history[j]

\* C6: a step that ends in a failure, or runs without an output path, leaves
\* the fragment as it was; the fragment changes only in a step that succeeds,
\* and then it holds every registered identifier.
C6_AllOrNothing ==
  [][/\ ret'.status \in {"err", "panic"} => fragment' = fragment
     /\ ~out_path.some => fragment' = fragment
     /\ fragment' # fragment =>
          /\ ret'.status = "ok"
          /\ {fragment'[i].id : i \in 1..Len(fragment')}
               = allow_const \cup {hook_consts[i].id : i \in 1..Len(hook_consts)}
     /\ ret'.status = "ok" =>
          {fragment'[i].id : i \in 1..Len(fragment')}
            = allow_const \cup {hook_consts[i].id : i \in 1..Len(hook_consts)}
    ]_vars

\* A generation failed after an earlier one had written a fragment of its own.
C6_Witness ==
  /\ ret.status = "err"
  /\ fragment # <<>>
  /\ fragment # PreviousFragment

\* The unconditional triggers of a call: the keys, the timestamp override,
\* the generated file.
Unconditional ==
  [i \in 1..Len(call.other_keys) |->
     [kind |-> "rerun-if-env-changed", arg |-> call.other_keys[i]]]
    \o <<[kind |-> "rerun-if-env-changed", arg |-> DEFINE_SOURCE_DATE_EPOCH]>>
    \o <<[kind |-> "rerun-if-changed",
          arg |-> call.out_dir \o <<"/">> \o DEFINE_BUILD_TIMING_RS]>>

\* C7 as stated: Lazy under a debug signal emits exactly the unconditional
\* triggers.
C7_AsStated ==
  (call.made /\ call.pattern.tag = "Lazy" /\ call.debug) =>
    triggers = Unconditional

\* C7 amended: Lazy under a debug signal emits no trigger at all, the
\* unconditional ones included.
C7_LazyDebugEmitsNothing ==
  (call.made /\ call.pattern.tag = "Lazy" /\ call.debug) => triggers = <<>>

C7_Witness ==
  /\ call.made
  /\ call.pattern.tag = "Lazy"
  /\ call.debug
  /\ Len(call.other_keys) = MaxKeys

ArgsOf(kind) ==
  LET lines == SelectSeq(triggers, LAMBDA l : l.kind = kind)
  IN  [i \in 1..Len(lines) |-> lines[i].arg]

\* C8: Custom emits one path trigger per configured path in the given order
\* and one variable trigger per configured variable in the given order, plus
\* the unconditional triggers, whatever the debug signal.
C8_CustomTriggers ==
  (call.made /\ call.pattern.tag = "Custom") =>
    /\ ArgsOf("rerun-if-changed")
         = call.pattern.if_path_changed
             \o <<call.out_dir \o <<"/">> \o DEFINE_BUILD_TIMING_RS>>
    /\ ArgsOf("rerun-if-env-changed")
         = call.pattern.if_env_changed \o call.other_keys
             \o <<DEFINE_SOURCE_DATE_EPOCH>>
    /\ Len(triggers)
         = Len(call.pattern.if_path_changed) + Len(call.pattern.if_env_changed)
             + Len(call.other_keys) + 2

C8_Witness ==
  /\ call.made
  /\ call.pattern.tag = "Custom"
  /\ call.debug
  /\ Len(call.pattern.if_path_changed) = MaxList
  /\ Len(call.pattern.if_env_changed) = MaxList
  /\ Len(triggers) > 2 * MaxList

\* C9: RealTime emits exactly the unconditional triggers under either debug
\* signal, and Lazy under a non-debug signal emits what RealTime emits.
C9_LazyReleaseIsRealTime ==
  call.made =>
    /\ call.pattern.tag = "RealTime" => triggers = Unconditional
    /\ (call.pattern.tag = "Lazy" /\ ~call.debug) =>
         /\ triggers = Unconditional
         /\ triggers = rerun_if(RealTime, call.debug, call.other_keys,
                                call.out_dir)

C9_Witness ==
  /\ call.made
  /\ call.pattern.tag = "Lazy"
  /\ ~call.debug
  /\ Len(call.other_keys) = MaxKeys
  /\ Len(triggers) = MaxKeys + 2

\* C10 as stated: whatever the caller configures, BUILD_OS is among the
\* constants to resolve.
C10_AsStated == BUILD_OS \in RegisteredIds

\* C10 amended: the allowed set is the argument of the last allow_const call,
\* and default_allow before any such call; BUILD_OS is among the constants to
\* resolve unless the last allow_const call left it out and no hook was
\* registered under that name.
C10_AllowConstReplaces ==
  /\ allow_const = (IF last_allow.called THEN last_allow.arg ELSE {BUILD_OS})
  /\ (~last_allow.called \/ BUILD_OS \in last_allow.arg \/ BUILD_OS \in HookIds)
       <=> BUILD_OS \in RegisteredIds

C10_Witness ==
  /\ last_allow.called
  /\ BUILD_OS \notin last_allow.arg
  /\ Len(hook_consts) > 0
  /\ BUILD_OS \notin RegisteredIds

====
